---- MODULE Spec2Model ----
(***************************************************************************)
(* The L'Oreal chat widget of src/script.js as a state machine.            *)
(*                                                                         *)
(* A text is a sequence of tokens (words and whitespace); a message is a   *)
(* record {role, content}.  A page session is the state after the script   *)
(* has run to its last line (loadState, renderConversation and the         *)
(* greeting), then the submit handler and the continuations of the         *)
(* promises it awaits (fetch, res.text(), res.json()), each run to its     *)
(* next await as the event loop runs them.  Spec and SpecByControl follow  *)
(* one page session; SpecReload and SpecReloadByControl follow the page    *)
(* over its reloads, which start a new session on the storage the last one *)
(* left, and the reply whose content is no string, which a reload meets    *)
(* again in the storage.                                                   *)
(***************************************************************************)
EXTENDS Integers, Sequences, FiniteSets, TLC

(* ------------------------------ bounds -------------------------------- *)

\* Submits with non-empty text that one page session receives.
MaxRequests == 2

(* ------------------------- program constants -------------------------- *)

MAX_CONVERSATION_MESSAGES == 40

systemPrompt == <<"You are the L'Oreal Smart Product Advisor.">>

greeting == <<"Welcome to the L'Oreal Smart Product Advisor.">>

(* --------------------------- optional values -------------------------- *)

\* null / undefined is None, a present value x is Some(x).
None == <<>>
Some(x) == <<x>>
Get(o) == o[1]

\* JavaScript's a ?? b on optional values.
Coalesce(a, b) == IF a # None THEN a ELSE b

Min(a, b) == IF a <= b THEN a ELSE b
Max(a, b) == IF a >= b THEN a ELSE b

(* -------------------------------- texts ------------------------------- *)

Whitespace == {" ", "\n"}

RECURSIVE TrimStart(_)
TrimStart(s) ==
    IF s # <<>> /\ Head(s) \in Whitespace THEN TrimStart(Tail(s)) ELSE s

RECURSIVE TrimEnd(_)
TrimEnd(s) ==
    IF s # <<>> /\ s[Len(s)] \in Whitespace
    THEN TrimEnd(SubSeq(s, 1, Len(s) - 1))
    ELSE s

\* The text taken as it is (the call of trim left out).
Trim_None(s) == s

\* String.prototype.trim
Trim(s) == TrimEnd(TrimStart(s))

\* No case folding (the pattern without its /i flag).
Lower_CaseSensitive(t) == t

\* Case folding of the tokens the texts are made of (the /i flag).
Lower(t) ==
    CASE t = "I'm" -> "i'm"
      [] t = "I" -> "i"
      [] t = "My" -> "my"
      [] t = "Failed to fetch" -> "failed to fetch"
      [] OTHER -> t

\* What ([A-Z][a-zA-Z\-']{1,30}) captures at the start of token t under /i:
\* a letter followed by 1 to 30 letters, hyphens or apostrophes; a trailing
\* punctuation mark is left out, a one-letter or non-letter token does not
\* match.
NameCapture(t) ==
    CASE t \in Whitespace \cup {"a", "I", "?", "500"} -> None
      [] t = "Dana." -> Some("Dana")
      [] OTHER -> Some(t)

\* The alternatives of (?:my name is|i am|i'm), as token sequences.
NameIntros == { <<"my", " ", "name", " ", "is">>, <<"i", " ", "am">>, <<"i'm">> }

\* The values userInput.value takes when a submit event arrives.
Inputs == { <<>>,
            <<" ">>,
            <<" ", "hi", " ">>,
            <<"Hi,", " ", "I'm", " ", "Dana">> }

(* ----------------------- JavaScript array helpers --------------------- *)

\* Array.prototype.slice(start) for any integer start.
Slice(s, start) ==
    LET from == IF start < 0 THEN Max(Len(s) + start, 0) ELSE Min(start, Len(s))
    IN  SubSeq(s, from + 1, Len(s))

IsSystem(m) == m.role = "system"

\* conversation.find((m) => m.role === "system"): the first system message,
\* else undefined.
FindSystem(s) ==
    IF \E i \in 1..Len(s) : IsSystem(s[i])
    THEN Some(s[CHOOSE i \in 1..Len(s) :
                  IsSystem(s[i]) /\ \A j \in 1..(i - 1) : ~IsSystem(s[j])])
    ELSE None
NotSystem(m) == m.role # "system"
IsUser(m) == m.role = "user"

Message(role, content) == [role |-> role, content |-> content]

\* What a slot of the conversation array holds when trimConversation found no
\* system message (undefined).
Undefined == [role |-> "undefined", content |-> <<>>]

(* ------------------------------- storage ------------------------------ *)

\* JSON.stringify of the conversation: the stored string, by what it parses to.
JSONstringify(conv) == [kind |-> "array", items |-> conv]

\* A parse that takes any text for the JSON of an array holding that text.
JSONparse_Lenient(raw) ==
    IF raw.kind = "garbage"
    THEN [threw |-> FALSE, isArray |-> TRUE,
          items |-> <<[role |-> "user", content |-> <<"garbage">>]>>]
    ELSE [threw |-> FALSE, isArray |-> raw.kind = "array", items |-> raw.items]

\* JSON.parse of a stored string: throws on text that is no JSON
\* ("garbage"), yields the value otherwise.
JSONparse(raw) ==
    IF raw.kind = "garbage"
    THEN [threw |-> TRUE, isArray |-> FALSE, items |-> <<>>]
    ELSE [threw |-> FALSE, isArray |-> raw.kind = "array", items |-> raw.items]

\* saveState run before the push it follows: the conversation is persisted
\* without its newest message.
saveState_BeforePush(store, conv, name, writable) ==
    IF writable
    THEN [conversation |-> [kind |-> "array",
                            items |-> SubSeq(conv, 1, Len(conv) - 1)],
          userName |-> Some(name)]
    ELSE store

\* saveState: the new content of localStorage.  Where the storage takes no
\* writes (it is disabled, or its quota is used up) the first setItem throws,
\* the error is caught and nothing is written.
saveState(store, conv, name, writable) ==
    IF writable
    THEN [conversation |-> JSONstringify(conv), userName |-> Some(name)]
    ELSE store

\* loadState that adds the missing system message at the end (push for
\* unshift).
loadState_Appends(store) ==
    LET fresh == <<Message("system", systemPrompt)>>
        raw == store.conversation
        name == store.userName
        \* line 73: if (name) userName = name
        loadedName == IF name # None /\ Get(name) # "" THEN Get(name) ELSE ""
    IN  IF raw.kind = "unreadable"
        THEN \* getItem throws at line 71, before the name is read
             [conversation |-> fresh, userName |-> ""]
        ELSE IF raw.kind \in {"absent", "empty"}
        THEN [conversation |-> fresh, userName |-> loadedName]
        ELSE LET parsed == JSONparse(raw) IN
             IF parsed.threw
             THEN [conversation |-> fresh, userName |-> loadedName]
             ELSE IF parsed.isArray /\ Len(parsed.items) > 0
             THEN [conversation |->
                     IF ~ \E i \in 1..Len(parsed.items) : IsSystem(parsed.items[i])
                     THEN parsed.items \o <<Message("system", systemPrompt)>>
                     ELSE parsed.items,
                   userName |-> loadedName]
             ELSE [conversation |-> fresh, userName |-> loadedName]

\* loadState on the module's initial conversation [system] and userName "".
loadState(store) ==
    LET fresh == <<Message("system", systemPrompt)>>
        raw == store.conversation
        name == store.userName
        \* line 73: if (name) userName = name
        loadedName == IF name # None /\ Get(name) # "" THEN Get(name) ELSE ""
    IN  IF raw.kind = "unreadable"
        THEN \* getItem throws at line 71, before the name is read
             [conversation |-> fresh, userName |-> ""]
        ELSE IF raw.kind \in {"absent", "empty"}
        THEN [conversation |-> fresh, userName |-> loadedName]
        ELSE LET parsed == JSONparse(raw) IN
             IF parsed.threw
             THEN [conversation |-> fresh, userName |-> loadedName]
             ELSE IF parsed.isArray /\ Len(parsed.items) > 0
             THEN [conversation |->
                     IF ~ \E i \in 1..Len(parsed.items) : IsSystem(parsed.items[i])
                     THEN <<Message("system", systemPrompt)>> \o parsed.items
                     ELSE parsed.items,
                   userName |-> loadedName]
             ELSE [conversation |-> fresh, userName |-> loadedName]

\* trimConversation keeping the first messages instead of the last ones.
trimConversation_KeepFirst(conv) ==
    LET sys == FindSystem(conv)
        others == SelectSeq(conv, NotSystem)
        trimmed == SubSeq(others, 1, Min(Len(others), MAX_CONVERSATION_MESSAGES))
    IN  <<IF sys = None THEN Undefined ELSE Get(sys)>> \o trimmed

\* trimConversation: the new value of the conversation.
trimConversation(conv) ==
    LET sys == FindSystem(conv)
        others == SelectSeq(conv, NotSystem)
        trimmed == Slice(others, 0 - MAX_CONVERSATION_MESSAGES)
    IN  <<IF sys = None THEN Undefined ELSE Get(sys)>> \o trimmed

(* ------------------------------- display ------------------------------ *)

\* The element appendMessage adds to the chat window: its class and its text.
Element(role, text) == [cls |-> role, text |-> text]

appendMessage(window, role, text) == Append(window, Element(role, text))

\* A content that is no string: the JSON number 42.  escapeHtml calls
\* replaceAll on what it is given, which throws a TypeError on such a value.
NumberContent == <<"42 (a number)">>

IsString(content) == content # NumberContent

\* renderConversation from the message at the head of conv on: the forEach
\* ends at the first message whose content appendMessage throws on.
RECURSIVE renderFrom(_, _)
renderFrom(window, conv) ==
    IF conv = <<>> THEN window
    ELSE LET m == Head(conv) IN
         IF m.role # "system" /\ ~IsString(m.content)
         THEN window
         ELSE renderFrom(IF m.role = "system" THEN window
                         ELSE appendMessage(window,
                                            IF m.role = "assistant" THEN "ai" ELSE m.role,
                                            m.content),
                         Tail(conv))

\* renderConversation: the chat window cleared and redrawn.
renderConversation(conv) == renderFrom(<<>>, conv)

\* renderConversation throws: a message to draw has a content that is no
\* string.
RenderThrows(conv) ==
    \E i \in 1..Len(conv) : conv[i].role # "system" /\ ~IsString(conv[i].content)

(* --------------------------- name detection --------------------------- *)

LowerAll(s) == [i \in 1..Len(s) |-> Lower(s[i])]

\* The first index from j on that holds no whitespace (Len + 1 when none).
RECURSIVE SkipWhitespace(_, _)
SkipWhitespace(text, j) ==
    IF j <= Len(text) /\ text[j] \in Whitespace
    THEN SkipWhitespace(text, j + 1)
    ELSE j

\* What the pattern of line 96 captures when matched at token i, else None.
MatchAt(text, i) ==
    LET hits == { intro \in NameIntros :
                    /\ i + Len(intro) - 1 <= Len(text)
                    /\ LowerAll(SubSeq(text, i, i + Len(intro) - 1)) = intro }
    IN  IF hits = {} THEN None
        ELSE LET intro == CHOOSE h \in hits : TRUE
                 j == i + Len(intro)
                 k == SkipWhitespace(text, j)
             IN  IF k > j /\ k <= Len(text) THEN NameCapture(text[k]) ELSE None

\* text.match(...): the capture of the leftmost match, else None.
MatchName(text) ==
    IF \E i \in 1..Len(text) : MatchAt(text, i) # None
    THEN MatchAt(text, CHOOSE i \in 1..Len(text) :
                         /\ MatchAt(text, i) # None
                         /\ \A j \in 1..(i - 1) : MatchAt(text, j) = None)
    ELSE None

(* ----------------------------- responses ------------------------------ *)

\* A choice of the completion: {message: {content}, delta: {content}, text},
\* each part optional.
Choice(message, delta, text) ==
    [message |-> IF message = None THEN None ELSE Some([content |-> message]),
     delta |-> IF delta = None THEN None ELSE Some([content |-> delta]),
     text |-> text]

\* The parsed JSON body: {choices, body, error}, each optional.
Data(choices, body, error) == [choices |-> choices, body |-> body, error |-> error]

\* A `body` field: a string (that parses to `value`, or does not parse) or an
\* object (`value`).
Body(isString, parses, value) ==
    [isString |-> isString, parses |-> parses, value |-> value]

replyText == <<"Try", " ", "Revitalift">>

OneChoice(c) == Data(Some(<<Some(c)>>), None, None)

ProviderError(message, json) == [message |-> message, json |-> json]

\* {choices: [{message: {content: X}}]}
ShapeMessage == Some(OneChoice(Choice(Some(replyText), None, None)))
\* {choices: [{message: {content: ""}}]}
ShapeEmptyContent == Some(OneChoice(Choice(Some(<<>>), None, None)))
\* {choices: [{delta: {content: X}}]}
ShapeDelta == Some(OneChoice(Choice(None, Some(replyText), None)))
\* {choices: [{text: X}]}
ShapeText == Some(OneChoice(Choice(None, None, Some(replyText))))
\* {choices: [{}]}
ShapeNoText == Some(OneChoice(Choice(None, None, None)))
\* {choices: []}
ShapeNoChoices == Some(Data(Some(<<>>), None, None))
\* {choices: [null]}
ShapeNullChoice == Some(Data(Some(<<None>>), None, None))
\* {}
ShapeEmptyObject == Some(Data(None, None, None))
\* null
ShapeNull == None
\* {error: {message: "quota exceeded"}}
ShapeError ==
    Some(Data(None, None,
              Some(ProviderError(Some(<<"quota exceeded">>),
                                 <<"{\"message\":\"quota exceeded\"}">>))))
\* {choices: [{message: {content: X}}], error: {message: "ignored"}}
ShapeMessageAndError ==
    Some(Data(Some(<<Some(Choice(Some(replyText), None, None))>>), None,
              Some(ProviderError(Some(<<"ignored">>), <<"{}">>))))
\* {body: "<the JSON of {choices: [{message: {content: X}}]}>"}
ShapeBodyString == Some(Data(None, Some(Body(TRUE, TRUE, ShapeMessage)), None))
\* {body: "<no JSON>"}
ShapeBodyGarbage == Some(Data(None, Some(Body(TRUE, FALSE, None)), None))
\* {body: "null"}
ShapeBodyNull == Some(Data(None, Some(Body(TRUE, TRUE, None)), None))
\* {body: {choices: [{text: X}]}}
ShapeBodyObject == Some(Data(None, Some(Body(FALSE, TRUE, ShapeText)), None))

\* {choices: [{message: {content: 42}}]}
ShapeNumberContent == Some(OneChoice(Choice(Some(NumberContent), None, None)))

\* The JSON values the endpoint answers with, their assistant text a string
\* where they hold one.
DataShapes ==
    { ShapeMessage, ShapeEmptyContent, ShapeDelta, ShapeText, ShapeNoText,
      ShapeNoChoices, ShapeNullChoice, ShapeEmptyObject, ShapeNull, ShapeError,
      ShapeMessageAndError, ShapeBodyString, ShapeBodyGarbage, ShapeBodyNull,
      ShapeBodyObject }

\* The response fetch resolves with: its ok flag and its status.
Response(ok, status) == [ok |-> ok, status |-> status]

NoResponse == Response(FALSE, "")

Responses == { Response(TRUE, "200"), Response(FALSE, "500") }

\* What reading the body yields: the read rejects, or it yields a text that
\* is no JSON, or a text that is the JSON of `data`.
BodyRead(kind, txt, data) == [kind |-> kind, txt |-> txt, data |-> data]

\* The bodies of the responses that are not ok, read by res.text().
ErrorBodies ==
    { BodyRead("readFails", <<>>, None),
      BodyRead("text", <<"Internal Server Error">>, None),
      BodyRead("text", <<"failed to fetch", " ", "upstream">>, None) }

\* The bodies of the responses that are ok, read by res.json().
JsonBodies ==
    { BodyRead("readFails", <<>>, None),
      BodyRead("text", <<"<html>">>, None) }
    \cup { BodyRead("json", <<>>, d) : d \in DataShapes }

(* ---------------------- sendMessageToOpenAI, parts --------------------- *)

Err(type, message) == [type |-> type, message |-> message]

\* x?.content on an optional {content}.
ContentOf(o) == IF o = None THEN None ELSE Get(o).content

\* choice?.message?.content ?? choice?.delta?.content ?? choice?.text ?? null
ChoiceText(choice) ==
    IF choice = None THEN None
    ELSE Coalesce(ContentOf(Get(choice).message),
                  Coalesce(ContentOf(Get(choice).delta), Get(choice).text))

\* !x for an optional text: null, undefined and "" are falsy.
Falsy(x) == x = None \/ Get(x) = <<>>

\* Lines 165-173: the assistant text of data.choices[0].
FromChoices(data) ==
    IF data # None /\ Get(data).choices # None /\ Len(Get(Get(data).choices)) > 0
    THEN ChoiceText(Get(Get(data).choices)[1])
    ELSE None

\* Lines 176-189: the assistant text of a wrapped response.
FromBody(data, assistantMessage) ==
    IF Falsy(assistantMessage) /\ data # None /\ Get(data).body # None
    THEN LET body == Get(Get(data).body) IN
         IF body.isString /\ ~body.parses
         THEN assistantMessage        \* JSON.parse threw: ignored
         ELSE LET parsed == body.value IN
              IF parsed # None /\ Get(parsed).choices # None
                 /\ Len(Get(Get(parsed).choices)) > 0
              THEN ChoiceText(Get(Get(parsed).choices)[1])
              ELSE None
    ELSE assistantMessage

\* Lines 160-203: the outcome of reading the JSON body: the assistant text,
\* or the error thrown.
ParseReply(data) ==
    LET assistantMessage == FromBody(data, FromChoices(data)) IN
    IF Falsy(assistantMessage)
    THEN IF data # None /\ Get(data).error # None
         THEN LET e == Get(Get(data).error)
                  msg == IF Falsy(e.message) THEN e.json ELSE Get(e.message)
              IN  [ok |-> FALSE, text |-> <<>>,
                   err |-> Err("Error", <<"OpenAI error: ">> \o msg)]
         ELSE [ok |-> FALSE, text |-> <<>>,
               err |-> Err("Error", <<"No assistant message in response">>)]
    ELSE [ok |-> TRUE, text |-> Get(assistantMessage), err |-> Err("", <<>>)]

\* /failed to fetch/i.test(err.message || "")
FailedToFetch(message) ==
    \E i \in 1..Len(message) : Lower(message[i]) = "failed to fetch"

\* Lines 212-223: the message the catch block shows.
friendlyMessage(err, workerUrl) ==
    LET isNetworkErr == err.type = "TypeError" \/ FailedToFetch(err.message) IN
    IF isNetworkErr
    THEN IF workerUrl # None
         THEN <<"Network error: could not reach the Cloudflare Worker at ",
                Get(workerUrl)>>
         ELSE <<"Network error: could not reach the OpenAI API.">>
    ELSE IF err.message # <<>>
    THEN <<"Error: ">> \o err.message
    ELSE <<"Sorry - there was an error getting a response.">>

\* setLoading that never disables the button.
setLoading_Off(isLoading) == FALSE

\* setLoading: the new value of sendBtn.disabled (the page has the button).
setLoading(isLoading) == isLoading

\* Only the text of the turn is sent, not the conversation.
Payload_LatestOnly(workerUrl, conv) ==
    IF workerUrl # None
    THEN [url |-> Get(workerUrl), authorization |-> FALSE,
          model |-> None, temperature |-> None, messages |-> <<conv[Len(conv)]>>]
    ELSE [url |-> "https://api.openai.com/v1/chat/completions",
          authorization |-> TRUE,
          model |-> Some("gpt-4o"), temperature |-> Some("0.2"),
          messages |-> <<conv[Len(conv)]>>]

\* Lines 115-152: what fetch is called with.  The body is serialised at the
\* call, so it holds the conversation as it is at that moment.
Payload(workerUrl, conv) ==
    IF workerUrl # None
    THEN [url |-> Get(workerUrl), authorization |-> FALSE,
          model |-> None, temperature |-> None, messages |-> conv]
    ELSE [url |-> "https://api.openai.com/v1/chat/completions",
          authorization |-> TRUE,
          model |-> Some("gpt-4o"), temperature |-> Some("0.2"),
          messages |-> conv]

\* A handler that returns while the control is disabled, calling no fetch.
newRequest_NotSent(workerUrl, conv, loading) ==
    [phase |-> IF loading THEN "done" ELSE "fetch",
     payload |-> Payload(workerUrl, conv),
     res |-> NoResponse, whileLoading |-> loading]

\* Lines 111-153: the call record of sendMessageToOpenAI once fetch is called:
\* it waits for fetch.  loading is sendBtn.disabled as the call found it.
newRequest(workerUrl, conv, loading) ==
    [phase |-> "fetch", payload |-> Payload(workerUrl, conv),
     res |-> NoResponse, whileLoading |-> loading]

\* A catch block that shows the message and throws the error on.
catchBlock_Rethrows(window, err, workerUrl) ==
    [window |-> appendMessage(window, "ai", friendlyMessage(err, workerUrl)),
     thrown |-> TRUE]

\* Lines 209-225: the catch block, on the chat window: what it shows, and
\* whether it lets the error leave the handler.
catchBlock(window, err, workerUrl) ==
    [window |-> appendMessage(window, "ai", friendlyMessage(err, workerUrl)),
     thrown |-> FALSE]

\* The reply pushed twice.
pushReply_Twice(conv, assistantMessage) ==
    Append(Append(conv, Message("assistant", assistantMessage)),
           Message("assistant", assistantMessage))

\* Lines 205-208 on the conversation: the reply is pushed.
pushReply(conv, assistantMessage) ==
    Append(conv, Message("assistant", assistantMessage))

\* The user's text put in front (unshift for push).
pushUser_Front(conv, text) == <<Message("user", text)>> \o conv

\* Line 238 on the conversation: the user's text is pushed.
pushUser(conv, text) == Append(conv, Message("user", text))

(* -------------------------------- state ------------------------------- *)

VARIABLES
    conversation,     \* the conversation array
    userName,         \* the detected name, "" when none
    storage,          \* localStorage: the two entries of STORAGE_KEYS
    storageWritable,  \* whether localStorage takes writes in this session
    chat,             \* the elements of chatWindow
    latestQuestion,   \* the text of latestQuestionEl, None while untouched
    btnDisabled,      \* sendBtn.disabled
    requests,         \* the calls of sendMessageToOpenAI, in order of issue
    cfWorkerUrl       \* the cfWorkerUrl of secrets.js, None when not set

vars == <<conversation, userName, storage, storageWritable, chat,
          latestQuestion, btnDisabled, requests, cfWorkerUrl>>

StoredWords == <<"hi", "ok", "products">>

\* The i-th message of a persisted array: its content tells its position.
StoredMessage(role, i) ==
    Message(role, IF role = "system" THEN systemPrompt
                  ELSE <<StoredWords[(i % 3) + 1]>>)

StoredArray(roles) == [i \in 1..Len(roles) |-> StoredMessage(roles[i], i)]

Raw(kind, items) == [kind |-> kind, items |-> items]

\* Persisted arrays of a few messages, by the roles of their messages.
ShortArrays ==
    { StoredArray(roles) :
        roles \in { <<>>,
                    <<"system">>,
                    <<"user", "assistant">>,
                    <<"user", "system">>,
                    <<"system", "user", "system">> } }

\* Persisted arrays around the trimming bound: the system message and k
\* messages of user and assistant in turn.
LongArray(k) ==
    StoredArray(<<"system">> \o
                [i \in 1..k |-> IF i % 2 = 1 THEN "user" ELSE "assistant"])

LongArrays ==
    { LongArray(k) :
        k \in (MAX_CONVERSATION_MESSAGES - 1)..MAX_CONVERSATION_MESSAGES }

\* The values the conversation entry of localStorage may hold at page load.
StoredConversations ==
    { Raw(k, <<>>) : k \in {"absent", "empty", "garbage", "nonarray", "unreadable"} }
    \cup { Raw("array", a) : a \in ShortArrays \cup LongArrays }

StoredNames == {None, Some("Ana")}

WorkerUrls == {None, Some("https://worker.example/")}

\* Lines 256-267: the chat window and the latest question after page load.
\* When renderConversation throws at line 253 the script ends there, with
\* the messages drawn so far.
InitialChat(conv) ==
    IF RenderThrows(conv)
    THEN renderConversation(conv)
    ELSE IF Len(conv) <= 1
    THEN appendMessage(<<>>, "ai", greeting)
    ELSE renderConversation(conv)

InitialQuestion(conv) ==
    LET users == SelectSeq(conv, IsUser) IN
    IF ~RenderThrows(conv) /\ Len(conv) > 1 /\ users # <<>>
    THEN Some(users[Len(users)].content)
    ELSE None

\* The sessions whose storage takes no writes: the storage is disabled, it
\* cannot be read either, or reads as empty.
ReadOnlyConversations == { Raw("unreadable", <<>>), Raw("absent", <<>>) }

\* saveState writes the name with the conversation: a name is stored only
\* beside a conversation as saveState writes it, the system message first and
\* a message of the user after it.
NamedConversation(raw) ==
    /\ raw.kind = "array"
    /\ raw.items # <<>>
    /\ IsSystem(raw.items[1])
    /\ \A i \in 2..Len(raw.items) : ~IsSystem(raw.items[i])
    /\ \E i \in 1..Len(raw.items) : IsUser(raw.items[i])

\* The state once the script has run: lines 15-27 and 251-267.  The page
\* without a worker (the direct call) is followed from an empty storage.
Init ==
    \E rawConv \in StoredConversations, rawName \in StoredNames,
       url \in WorkerUrls, writable \in BOOLEAN :
        LET store == [conversation |-> rawConv, userName |-> rawName]
            loaded == loadState(store)
        IN  /\ (rawConv.kind = "unreadable" => ~writable)
            /\ (~writable => rawConv \in ReadOnlyConversations)
            /\ (rawName # None => NamedConversation(rawConv))
            /\ (url = None => rawConv.kind = "absent")
            /\ storage = store
            /\ storageWritable = writable
            /\ conversation = loaded.conversation
            /\ userName = loaded.userName
            /\ chat = InitialChat(loaded.conversation)
            /\ latestQuestion = InitialQuestion(loaded.conversation)
            /\ btnDisabled = FALSE
            /\ requests = <<>>
            /\ cfWorkerUrl = url

InFlight(r) == requests[r].phase \in {"fetch", "text", "json"}

InFlightCount == Cardinality({ r \in 1..Len(requests) : InFlight(r) })

(* ------------------------------- actions ------------------------------ *)

\* Lines 232-249 with the call of sendMessageToOpenAI up to its first await
\* (lines 111-153): the submit handler on userInput.value = raw.
SubmitHandler(raw) ==
    LET text == Trim(raw)
        pushed == pushUser(conversation, text)
        m == MatchName(text)
        name == IF m # None THEN Get(m) ELSE userName
        \* detectAndSaveUserName saves, then line 240 saves again
        store1 == IF m # None
                  THEN saveState(storage, pushed, name, storageWritable)
                  ELSE storage
        store2 == saveState(store1, pushed, name, storageWritable)
        trimmed == trimConversation(pushed)
    IN  IF text = <<>>
        THEN UNCHANGED vars
        ELSE /\ Len(requests) < MaxRequests
             /\ conversation' = trimmed
             /\ userName' = name
             /\ storage' = store2
             /\ chat' = appendMessage(chat, "user", text)
             /\ latestQuestion' = Some(text)
             /\ btnDisabled' = setLoading(TRUE)
             /\ requests' = Append(requests,
                                   newRequest(cfWorkerUrl, trimmed, btnDisabled))
             /\ UNCHANGED <<storageWritable, cfWorkerUrl>>

\* A submit event, whatever the state of the submit control.
Submit == \E raw \in Inputs : SubmitHandler(raw)

\* A submit event delivered to the form by its submit control.
SubmitByControl == btnDisabled = FALSE /\ Submit

\* The catch block without the finally block: the control stays disabled.
Fails_NoFinally(r, err) ==
    LET caught == catchBlock(chat, err, cfWorkerUrl) IN
    /\ chat' = caught.window
    /\ requests' = [requests EXCEPT
                      ![r].phase = IF caught.thrown THEN "rejected" ELSE "done"]
    /\ UNCHANGED <<conversation, userName, storage, storageWritable,
                   latestQuestion, btnDisabled, cfWorkerUrl>>

\* Lines 209-228: request r ends in the catch block with err, then finally.
Fails(r, err) ==
    LET caught == catchBlock(chat, err, cfWorkerUrl) IN
    /\ chat' = caught.window
    /\ btnDisabled' = setLoading(FALSE)
    /\ requests' = [requests EXCEPT
                      ![r].phase = IF caught.thrown THEN "rejected" ELSE "done"]
    /\ UNCHANGED <<conversation, userName, storage, storageWritable,
                   latestQuestion, cfWorkerUrl>>

\* A saveState that lets the storage's exception out: at line 207 it lands in
\* the catch block of sendMessageToOpenAI, after the push.
Replies_SaveThrows(r, text) ==
    LET pushed == pushReply(conversation, text)
        caught == catchBlock(chat, Err("QuotaExceededError", <<"quota">>), cfWorkerUrl)
    IN  /\ conversation' = pushed
        /\ storage' = saveState(storage, pushed, userName, storageWritable)
        /\ chat' = IF storageWritable
                   THEN appendMessage(chat, "ai", text)
                   ELSE caught.window
        /\ btnDisabled' = setLoading(FALSE)
        /\ requests' = [requests EXCEPT ![r].phase = "done"]
        /\ UNCHANGED <<userName, storageWritable, latestQuestion, cfWorkerUrl>>

\* The reply handled without the finally block: the control stays disabled.
Replies_NoFinally(r, text) ==
    LET pushed == pushReply(conversation, text) IN
    /\ conversation' = pushed
    /\ storage' = saveState(storage, pushed, userName, storageWritable)
    /\ chat' = appendMessage(chat, "ai", text)
    /\ requests' = [requests EXCEPT ![r].phase = "done"]
    /\ UNCHANGED <<userName, storageWritable, latestQuestion, btnDisabled,
                   cfWorkerUrl>>

\* Lines 205-208 and 226-228: request r ends with the reply text.
Replies(r, text) ==
    LET pushed == pushReply(conversation, text) IN
    /\ conversation' = pushed
    /\ storage' = saveState(storage, pushed, userName, storageWritable)
    /\ chat' = appendMessage(chat, "ai", text)
    /\ btnDisabled' = setLoading(FALSE)
    /\ requests' = [requests EXCEPT ![r].phase = "done"]
    /\ UNCHANGED <<userName, storageWritable, latestQuestion, cfWorkerUrl>>

\* The fetch of request r rejects (lines 128-153, then 209-228).
FetchRejects(r) ==
    /\ requests[r].phase = "fetch"
    /\ Fails(r, Err("TypeError", <<"Failed to fetch">>))

\* The control enabled again as soon as the response's head arrives.
FetchResolves_Enables(r, res) ==
    /\ requests[r].phase = "fetch"
    /\ requests' = [requests EXCEPT
                      ![r].phase = IF res.ok THEN "json" ELSE "text",
                      ![r].res = res]
    /\ btnDisabled' = FALSE
    /\ UNCHANGED <<conversation, userName, storage, storageWritable, chat,
                   latestQuestion, cfWorkerUrl>>

\* The fetch of request r resolves with res (lines 128-160): the handler
\* starts to read the body, with res.text() or with res.json().
FetchResolves(r, res) ==
    /\ requests[r].phase = "fetch"
    /\ requests' = [requests EXCEPT
                      ![r].phase = IF res.ok THEN "json" ELSE "text",
                      ![r].res = res]
    /\ UNCHANGED <<conversation, userName, storage, storageWritable, chat,
                   latestQuestion, btnDisabled, cfWorkerUrl>>

\* res.text() of request r settles with body (lines 156-157).
TextSettles(r, body) ==
    /\ requests[r].phase = "text"
    /\ IF body.kind = "readFails"
       THEN Fails(r, Err("TypeError", <<"network error">>))
       ELSE Fails(r, Err("Error",
                         <<"API error: ", requests[r].res.status, " ">>
                             \o body.txt))

\* res.json() of request r settles with body (lines 160-208).
JsonSettles(r, body) ==
    /\ requests[r].phase = "json"
    /\ LET reply == ParseReply(body.data) IN
       CASE body.kind = "readFails" ->
              Fails(r, Err("TypeError", <<"network error">>))
         [] body.kind = "text" ->
              Fails(r, Err("SyntaxError", <<"Unexpected token">>))
         [] OTHER ->
              IF reply.ok THEN Replies(r, reply.text) ELSE Fails(r, reply.err)

\* Lines 205-228 on an assistant text that is no string: it is pushed and
\* saved, appendMessage throws at line 208, the catch block shows the message
\* for a TypeError, then finally.
RepliesUnrenderable(r, content) ==
    LET pushed == pushReply(conversation, content)
        caught == catchBlock(chat,
                             Err("TypeError", <<"str.replaceAll is not a function">>),
                             cfWorkerUrl)
    IN  /\ conversation' = pushed
        /\ storage' = saveState(storage, pushed, userName, storageWritable)
        /\ chat' = caught.window
        /\ btnDisabled' = setLoading(FALSE)
        /\ requests' = [requests EXCEPT
                          ![r].phase = IF caught.thrown THEN "rejected" ELSE "done"]
        /\ UNCHANGED <<userName, storageWritable, latestQuestion, cfWorkerUrl>>

\* res.json() of request r settles with {choices: [{message: {content: 42}}]}
\* (lines 160-228): the content is truthy, so it is taken for the reply.
JsonSettlesUnrenderable(r) ==
    /\ requests[r].phase = "json"
    /\ LET reply == ParseReply(ShapeNumberContent) IN
       /\ reply.ok
       /\ ~IsString(reply.text)
       /\ RepliesUnrenderable(r, reply.text)

UnrenderableSettles ==
    \E r \in 1..Len(requests) : JsonSettlesUnrenderable(r)

FetchSettles ==
    \E r \in 1..Len(requests) :
        FetchRejects(r) \/ \E res \in Responses : FetchResolves(r, res)

BodySettles ==
    \E r \in 1..Len(requests) :
        \/ \E body \in ErrorBodies : TextSettles(r, body)
        \/ \E body \in JsonBodies : JsonSettles(r, body)

Next == Submit \/ FetchSettles \/ BodySettles

Spec == Init /\ [][Next]_vars

\* The page as its user drives it: submits come from the submit control.
NextByControl == SubmitByControl \/ FetchSettles \/ BodySettles

SpecByControl == Init /\ [][NextByControl]_vars

\* The page driven by its submit control, every issued request completing:
\* each await of the handler is resumed in the end.
LiveSpecByControl ==
    SpecByControl /\ WF_vars(FetchSettles) /\ WF_vars(BodySettles)

\* The page is loaded again (lines 1-27 and 251-267 run anew on the storage
\* as the session left it): the handlers of the page left behind never resume,
\* the new page's submit control is enabled.
Reload ==
    LET loaded == loadState(storage) IN
    /\ conversation' = loaded.conversation
    /\ userName' = loaded.userName
    /\ chat' = InitialChat(loaded.conversation)
    /\ latestQuestion' = InitialQuestion(loaded.conversation)
    /\ btnDisabled' = FALSE
    /\ requests' = [r \in 1..Len(requests) |->
                      IF InFlight(r)
                      THEN [requests[r] EXCEPT !.phase = "unloaded"]
                      ELSE requests[r]]
    /\ UNCHANGED <<storage, storageWritable, cfWorkerUrl>>

\* The page with reloads and with the reply that cannot be rendered, submits
\* delivered whatever the state of the control.
NextReload ==
    Submit \/ FetchSettles \/ BodySettles \/ UnrenderableSettles \/ Reload

SpecReload == Init /\ [][NextReload]_vars

\* The page with reloads and with the reply that cannot be rendered, driven
\* by its submit control.
NextReloadByControl ==
    SubmitByControl \/ FetchSettles \/ BodySettles \/ UnrenderableSettles \/ Reload

SpecReloadByControl == Init /\ [][NextReloadByControl]_vars

(* ------------------------------- claims ------------------------------- *)

Last(s) == s[Len(s)]

\* A step of the submit handler on a non-empty text: a request is issued.
SubmitStep == Len(requests') = Len(requests) + 1

\* A step that completes request r.
Completes(r) == InFlight(r) /\ requests'[r].phase \notin {"fetch", "text", "json"}

\* The texts the catch block shows start with one of these.
ErrorPrefixes ==
    { "Network error: could not reach the Cloudflare Worker at ",
      "Network error: could not reach the OpenAI API.",
      "Error: ",
      "Sorry - there was an error getting a response." }

IsErrorElement(e) == e.cls = "ai" /\ e.text # <<>> /\ e.text[1] \in ErrorPrefixes

NonSystemCount(conv) == Len(SelectSeq(conv, NotSystem))

SystemCount(conv) == Len(SelectSeq(conv, IsSystem))

\* C1: in every reachable state the conversation is non-empty and its first
\* element has role system (also right after a restore from any persisted
\* non-empty array).
C1_SystemFirst == conversation # <<>> /\ conversation[1].role = "system"

\* C2 (as stated): once a submit of non-empty text has appended the user
\* message and issued the request, the conversation is at least one element
\* longer than before and its first element is the system message.
C2_LengthGrows ==
    [][SubmitStep =>
         /\ Len(conversation') >= Len(conversation) + 1
         /\ conversation'[1].role = "system"]_vars

\* C2 (amended): once a submit of non-empty text has appended the user message
\* and issued the request, the conversation ends with that user message, its
\* first element is the system message and it holds the system message and
\* min(N, k + 1) others, k the non-system messages held before; it is one
\* element longer than before exactly when it held one system message and
\* fewer than N others.
C2_SubmitAppends ==
    [][SubmitStep =>
         LET k == NonSystemCount(conversation) IN
         /\ Last(conversation') = Message("user", Get(latestQuestion'))
         /\ conversation'[1].role = "system"
         /\ Len(conversation') = 1 + Min(MAX_CONVERSATION_MESSAGES, k + 1)
         /\ (Len(conversation') = Len(conversation) + 1
               <=> (SystemCount(conversation) = 1
                    /\ k < MAX_CONVERSATION_MESSAGES))]_vars

\* A request was issued from a conversation that already held N non-system
\* messages: the conversation is at the bound and ends with the user message.
C2_Witness ==
    /\ requests # <<>>
    /\ NonSystemCount(conversation) = MAX_CONVERSATION_MESSAGES
    /\ Last(conversation).role = "user"
    /\ storage.conversation.kind = "array"
    /\ NonSystemCount(storage.conversation.items) = MAX_CONVERSATION_MESSAGES + 1

\* C3: with submit events delivered only while the submit control is enabled,
\* at most one request is in flight at any time, and the control is disabled
\* as long as the request is in flight.
C3_AtMostOneInFlight ==
    /\ InFlightCount <= 1
    /\ (InFlightCount = 1 => btnDisabled)

\* The second request of a session is in flight, the first one completed.
C3_Witness ==
    /\ Len(requests) = 2
    /\ ~InFlight(1)
    /\ InFlight(2)
    /\ btnDisabled

\* C4: the submit handler does not check the loading flag: a submit with
\* non-empty text delivered while a request is in flight and the control is
\* disabled appends another user message and issues a further request, which
\* overlaps the first.
C4_SubmitWhileLoading ==
    [][(SubmitStep /\ btnDisabled /\ InFlightCount >= 1) =>
         /\ Last(conversation') = Message("user", Get(latestQuestion'))
         /\ Last(chat') = Element("user", Get(latestQuestion'))
         /\ requests'[Len(requests')].phase = "fetch"
         /\ InFlightCount' = InFlightCount + 1]_vars

\* Two requests are in flight, the second one issued while the control was
\* disabled.
C4_Witness ==
    /\ InFlightCount = 2
    /\ requests[2].whileLoading

\* C5 (as stated): for any sequence of submit, reply and error events the
\* submit control is disabled exactly in the states where a request is in
\* flight.
C5_DisabledIffInFlight == btnDisabled <=> InFlightCount >= 1

\* C5 (amended): the same, for the sequences of events in which every submit
\* was delivered while the control was enabled.
C5_DisabledIffInFlightByControl ==
    (\A r \in 1..Len(requests) : ~requests[r].whileLoading)
        => (btnDisabled <=> InFlightCount >= 1)

\* A second turn is under way, each submit delivered with the control
\* enabled, after the reply of the first turn has enabled the control again.
C5_Witness ==
    /\ Len(requests) = 2
    /\ \A r \in 1..Len(requests) : ~requests[r].whileLoading
    /\ InFlight(2)
    /\ btnDisabled
    /\ \E i \in 1..Len(conversation) : conversation[i] = Message("assistant", replyText)
                                       /\ i > 1 /\ conversation[i - 1].role = "user"
                                       /\ Len(requests[1].payload.messages) = i - 1

\* C6: a success status with body {choices: [{message: {content: X}}]}, X
\* non-empty, appends exactly one message to the conversation, with role
\* assistant and content X, as its last element, and shows X and no error
\* message.
C6_ReplyAppended ==
    [][\A r \in 1..Len(requests) :
         JsonSettles(r, BodyRead("json", <<>>, ShapeMessage)) =>
           /\ requests[r].res.ok
           /\ conversation' = Append(conversation, Message("assistant", replyText))
           /\ chat' = Append(chat, Element("ai", replyText))
           /\ ~IsErrorElement(Last(chat'))]_vars

\* A turn has ended with the reply: it is the last message and the last
\* element shown.
C6_Witness ==
    /\ \E r \in 1..Len(requests) : requests[r].phase = "done" /\ requests[r].res.ok
    /\ Last(conversation) = Message("assistant", replyText)
    /\ Last(chat) = Element("ai", replyText)

\* The bodies of ok responses that carry no assistant text.
AbsentTextShapes ==
    { ShapeEmptyContent, ShapeNoText, ShapeNoChoices, ShapeNullChoice,
      ShapeEmptyObject, ShapeNull, ShapeBodyGarbage, ShapeBodyNull }

ProviderErrorShapes == { ShapeError }

\* Request r fails in this step: fetch rejects, the status is no success, the
\* body cannot be read or parsed, it holds no assistant text, or it is a
\* provider error object.
FailureStep(r) ==
    \/ FetchRejects(r)
    \/ \E body \in ErrorBodies : TextSettles(r, body)
    \/ JsonSettles(r, BodyRead("readFails", <<>>, None))
    \/ JsonSettles(r, BodyRead("text", <<"<html>">>, None))
    \/ \E d \in AbsentTextShapes \cup ProviderErrorShapes :
          JsonSettles(r, BodyRead("json", <<>>, d))

\* C7: every failure of a turn appends exactly one assistant-authored error
\* message to the chat, and the handler completes without throwing.
C7_OneErrorMessage ==
    [][\A r \in 1..Len(requests) :
         (Completes(r) /\ FailureStep(r)) =>
           /\ Len(chat') = Len(chat) + 1
           /\ SubSeq(chat', 1, Len(chat)) = chat
           /\ IsErrorElement(Last(chat'))
           /\ requests'[r].phase = "done"]_vars

\* A request with status 500 has completed and the chat ends with the error
\* message of that failure.
C7_Witness ==
    /\ \E r \in 1..Len(requests) :
          /\ requests[r].phase = "done"
          /\ requests[r].res = Response(FALSE, "500")
    /\ Last(chat) = Element("ai", <<"Error: ", "API error: ", "500", " ",
                                   "Internal Server Error">>)

\* C8: after a turn that ends in an error the session is Idle, the submit
\* control enabled, and the next submit of non-empty text appends its user
\* message and issues a new request.
C8_ErrorNonFatal ==
    [][/\ \A r \in 1..Len(requests) :
            (Completes(r) /\ FailureStep(r)) =>
                (~btnDisabled' /\ InFlightCount' = 0)
       /\ (SubmitStep /\ IsErrorElement(Last(chat))) =>
            /\ ~btnDisabled
            /\ Last(conversation') = Message("user", Get(latestQuestion'))
            /\ requests'[Len(requests')].phase = "fetch"
            /\ Last(requests'[Len(requests')].payload.messages)
                  = Message("user", Get(latestQuestion'))
            /\ InFlightCount' = 1]_vars

\* A turn has failed and the next turn's request is in flight.
C8_Witness ==
    /\ Len(requests) = 2
    /\ requests[1].phase = "done"
    /\ requests[2].phase = "fetch"
    /\ Len(chat) >= 2
    /\ IsErrorElement(chat[Len(chat) - 1])
    /\ Last(chat).cls = "user"

\* C9: the submit control leaves the disabled state only in a step that
\* completes the request, it stays disabled in every step in which the request
\* stays in flight, and when every issued request completes in the end every
\* disabled state is followed by an enabled one.
C9_ExitsOnlyByCompletion ==
    /\ [][(btnDisabled /\ ~btnDisabled') =>
            \E r \in 1..Len(requests) : Completes(r)]_vars
    /\ [][(InFlightCount >= 1 /\ InFlightCount' >= 1) => btnDisabled']_vars
    /\ (btnDisabled ~> ~btnDisabled)

\* The response's head has arrived, its body has not: the request is still
\* in flight and the control disabled.
C9_Witness ==
    /\ btnDisabled
    /\ \E r \in 1..Len(requests) : requests[r].phase \in {"text", "json"}

\* C10: trim leaves the conversation equal to the system message followed by
\* exactly the last min(N, k) of its k non-system messages, in their order.
C10_TrimKeepsLast ==
    [][SubmitStep =>
         LET before == Append(conversation, Message("user", Get(latestQuestion')))
             others == SelectSeq(before, NotSystem)
             k == Len(others)
             kept == Min(MAX_CONVERSATION_MESSAGES, k)
             firstSystem == CHOOSE i \in 1..Len(before) :
                              /\ before[i].role = "system"
                              /\ \A j \in 1..(i - 1) : before[j].role # "system"
         IN  /\ Len(conversation') = 1 + kept
             /\ conversation'[1] = before[firstSystem]
             /\ \A i \in 1..kept : conversation'[1 + i] = others[k - kept + i]]_vars

\* Trimming has dropped a message: the conversation is at the bound and the
\* persisted one, saved before the trim, holds one message more.
C10_Witness ==
    /\ requests # <<>>
    /\ NonSystemCount(conversation) = MAX_CONVERSATION_MESSAGES
    /\ storage.conversation.kind = "array"
    /\ Len(storage.conversation.items) > Len(conversation)
    /\ storage.conversation.items[2] # conversation[2]

\* C11: every request carries a message list made of exactly one system
\* message, in first position, followed by at most N non-system messages; the
\* list of a request just issued holds the most recent non-system messages of
\* the conversation as the submit left it, in their order, and the list a
\* request was issued with does not change afterwards.
C11_PayloadTrimmed ==
    /\ [](\A r \in 1..Len(requests) :
            LET ms == requests[r].payload.messages IN
            /\ Len(ms) >= 1
            /\ ms[1].role = "system"
            /\ SystemCount(ms) = 1
            /\ NonSystemCount(ms) <= MAX_CONVERSATION_MESSAGES)
    /\ [][SubmitStep =>
            LET before == Append(conversation, Message("user", Get(latestQuestion')))
                others == SelectSeq(before, NotSystem)
                k == Len(others)
                kept == Min(MAX_CONVERSATION_MESSAGES, k)
                ms == requests'[Len(requests')].payload.messages
            IN  /\ Len(ms) = 1 + kept
                /\ \A i \in 1..kept : ms[1 + i] = others[k - kept + i]
                /\ Last(ms) = Message("user", Get(latestQuestion'))]_vars
    /\ [][\A r \in 1..Len(requests) :
            requests'[r].payload = requests[r].payload]_vars

\* A request in flight carries the system message and N others, the last of
\* them the user's text, while the persisted conversation, saved before the
\* trim, still holds an older message that the request does not carry.
C11_Witness ==
    \E r \in 1..Len(requests) :
        LET ms == requests[r].payload.messages IN
        /\ requests[r].phase = "fetch"
        /\ NonSystemCount(ms) = MAX_CONVERSATION_MESSAGES
        /\ Last(ms).role = "user"
        /\ storage.conversation.kind = "array"
        /\ NonSystemCount(storage.conversation.items) > MAX_CONVERSATION_MESSAGES
        /\ ms[2] # storage.conversation.items[2]

IsPrefix(s, t) == Len(s) <= Len(t) /\ SubSeq(t, 1, Len(s)) = s

\* The non-system messages of a conversation, in their order.
Others(conv) == SelectSeq(conv, NotSystem)

\* The non-system messages of a stored conversation (none when no array).
StoredOthers(raw) == IF raw.kind = "array" THEN Others(raw.items) ELSE <<>>

\* C12: trimming is permanent.  The conversation loses messages only at its
\* old end, in a trim, and gains messages only at its new end: a submit leaves
\* the most recent N of its non-system messages and the new one, a reply is
\* added behind them, whatever is persisted in such a step holds messages of
\* the conversation only, and a page reload restores nothing that the
\* conversation did not hold when the page was left: a message that a trim
\* has dropped is not brought back.
C12_TrimPermanent ==
    [][LET o == Others(conversation)
           o2 == Others(conversation')
           new == Message("user", Get(latestQuestion'))
       IN  /\ SubmitStep =>
                 /\ o2 = Slice(Append(o, new), 0 - MAX_CONVERSATION_MESSAGES)
                 /\ Others(requests'[Len(requests')].payload.messages) = o2
           /\ Reload => IsPrefix(o2, o)
           /\ (~SubmitStep /\ ~Reload) => IsPrefix(o, o2)
           /\ (storage' # storage /\ ~SubmitStep) =>
                 StoredOthers(storage'.conversation) = o2]_vars

\* A stored value that parses to a non-empty array without a system message.
NoSystemArray(raw) ==
    /\ raw.kind = "array"
    /\ raw.items # <<>>
    /\ \A i \in 1..Len(raw.items) : raw.items[i].role # "system"

\* C13: restore from a persisted non-empty array that holds no system message
\* yields the system message followed by the persisted messages in their
\* persisted order, none added or lost; at page load and at every reload.
C13_RestorePrependsSystem ==
    /\ []((requests = <<>> /\ NoSystemArray(storage.conversation)) =>
            /\ conversation[1] = Message("system", systemPrompt)
            /\ Len(conversation) = Len(storage.conversation.items) + 1
            /\ \A i \in 1..Len(storage.conversation.items) :
                  conversation[i + 1] = storage.conversation.items[i])
    /\ [][(Reload /\ NoSystemArray(storage.conversation)) =>
            /\ conversation'[1] = Message("system", systemPrompt)
            /\ Len(conversation') = Len(storage.conversation.items) + 1
            /\ \A i \in 1..Len(storage.conversation.items) :
                  conversation'[i + 1] = storage.conversation.items[i]]_vars

\* The page was loaded on a persisted [user, assistant]: the conversation is
\* the system message and the two, which are the ones the chat shows.
C13_Witness ==
    /\ requests = <<>>
    /\ storage.conversation = Raw("array", StoredArray(<<"user", "assistant">>))
    /\ Len(conversation) = 3
    /\ conversation[1].role = "system"
    /\ conversation[2].role = "user"
    /\ conversation[3].role = "assistant"
    /\ Len(chat) = 2

\* C14: restore from persisted data that is no JSON, or whose read throws,
\* leaves the conversation as the fresh one, the system message alone, and
\* the script runs on to its end (the greeting is shown, the control is
\* enabled); at page load and at every reload.
C14_RestoreFallsBack ==
    /\ []((requests = <<>> /\ storage.conversation.kind \in {"garbage", "unreadable"}) =>
            /\ conversation = <<Message("system", systemPrompt)>>
            /\ chat = <<Element("ai", greeting)>>
            /\ ~btnDisabled)
    /\ [][(Reload /\ storage.conversation.kind \in {"garbage", "unreadable"}) =>
            /\ conversation' = <<Message("system", systemPrompt)>>
            /\ chat' = <<Element("ai", greeting)>>
            /\ ~btnDisabled']_vars

\* The page was loaded again on a storage whose read throws, after a turn:
\* the conversation is the fresh one and the greeting is shown.
C14_Witness ==
    /\ storage.conversation.kind = "unreadable"
    /\ requests # <<>>
    /\ \A r \in 1..Len(requests) : requests[r].phase \in {"done", "unloaded"}
    /\ conversation = <<Message("system", systemPrompt)>>
    /\ chat = <<Element("ai", greeting)>>

\* A text that is empty or made of whitespace only.
IsBlank(raw) == \A i \in 1..Len(raw) : raw[i] \in {" ", "\n"}

BlankInputs == { raw \in Inputs : IsBlank(raw) }

\* C15: a submit whose text is empty or whitespace-only is a no-op: in every
\* reachable state the handler runs on such a text, and no run of it changes
\* the conversation, the identity, the persisted state, the chat, the latest
\* question, the loading flag or the requests issued.
C15_BlankSubmitNoOp ==
    \A raw \in BlankInputs :
        /\ ENABLED SubmitHandler(raw)
        /\ ~ ENABLED (SubmitHandler(raw) /\ vars' # vars)

\* A whitespace-only text can be submitted while a request is in flight and
\* the control is disabled, the conversation holding the turn's user message.
C15_Witness ==
    /\ <<" ">> \in BlankInputs
    /\ ENABLED SubmitHandler(<<" ">>)
    /\ InFlightCount = 1
    /\ btnDisabled
    /\ Len(requests) < MaxRequests
    /\ Last(conversation).role = "user"

\* C16: in a session whose storage writes throw, a submit still appends the
\* user message to the conversation, shows it and issues the request that
\* carries it, and a successful reply is still appended to the conversation
\* and shown; nothing is persisted and no error message is shown.
C16_WriteFailureSwallowed ==
    [][~storageWritable =>
         /\ SubmitStep =>
               LET new == Message("user", Get(latestQuestion')) IN
               /\ Last(conversation') = new
               /\ requests'[Len(requests')].phase = "fetch"
               /\ Last(requests'[Len(requests')].payload.messages) = new
               /\ chat' = Append(chat, Element("user", Get(latestQuestion')))
               /\ storage' = storage
         /\ \A r \in 1..Len(requests) :
               JsonSettles(r, BodyRead("json", <<>>, ShapeMessage)) =>
                 /\ conversation' = Append(conversation, Message("assistant", replyText))
                 /\ chat' = Append(chat, Element("ai", replyText))
                 /\ requests'[r].phase = "done"
                 /\ storage' = storage]_vars

\* A turn has ended with its reply in a session whose storage takes no write:
\* the conversation holds the user message and the reply, the chat shows the
\* reply and no error message, the storage holds no conversation.
C16_Witness ==
    /\ ~storageWritable
    /\ Len(requests) = 1
    /\ requests[1].phase = "done"
    /\ requests[1].res.ok
    /\ Len(conversation) = 3
    /\ conversation[2].role = "user"
    /\ conversation[3] = Message("assistant", replyText)
    /\ Last(chat) = Element("ai", replyText)
    /\ \A i \in 1..Len(chat) : ~IsErrorElement(chat[i])
    /\ storage.conversation.kind # "array"

\* The identity that a stored name entry stands for: none ("") when the entry
\* is absent or empty.
StoredIdentity(store) ==
    IF store.userName # None /\ Get(store.userName) # ""
    THEN Get(store.userName)
    ELSE ""

HiImDana == <<"Hi,", " ", "I'm", " ", "Dana">>

WhatProducts == <<"What", " ", "products", " ", "do", " ", "you", " ", "have?">>

\* The texts of Inputs that hold no name phrase.
NoNameTexts == { <<"hi">> }

EndsWithTurn(conv, message) ==
    \/ (conv # <<>> /\ Last(conv) = message)
    \/ /\ Len(conv) >= 2
       /\ conv[Len(conv) - 1] = message
       /\ Last(conv).role = "assistant"

\* The step in which the reply {choices: [{message: {content: X}}]} of some
\* request is handled.
ReplyStep ==
    \E r \in 1..Len(requests) : JsonSettles(r, BodyRead("json", <<>>, ShapeMessage))

\* C18 (as stated): once the submit handler has issued the request, the user
\* message is in the conversation and in the persisted conversation; once a
\* reply is shown, it is in the conversation and in the persisted one; so a
\* reload after the request was issued restores a conversation that holds the
\* turn's user message.
C18_TurnOrder ==
    [][/\ SubmitStep =>
            LET new == Message("user", Get(latestQuestion')) IN
            /\ requests'[Len(requests')].phase = "fetch"
            /\ Last(conversation') = new
            /\ storage'.conversation.kind = "array"
            /\ Last(storage'.conversation.items) = new
       /\ ReplyStep =>
            /\ Last(chat') = Element("ai", replyText)
            /\ Last(conversation') = Message("assistant", replyText)
            /\ storage'.conversation.kind = "array"
            /\ Last(storage'.conversation.items) = Message("assistant", replyText)
       /\ (Reload /\ requests # <<>>) =>
            EndsWithTurn(conversation',
                         Last(requests[Len(requests)].payload.messages))]_vars

\* C18 (amended): the same, the persisted conversation and the reload taken
\* in the sessions whose storage takes the writes; where the writes throw,
\* the steps of the turn still happen and the storage is left as it was.
C18_TurnOrderWhenStored ==
    [][/\ SubmitStep =>
            LET new == Message("user", Get(latestQuestion')) IN
            /\ requests'[Len(requests')].phase = "fetch"
            /\ Last(conversation') = new
            /\ IF storageWritable
               THEN /\ storage'.conversation.kind = "array"
                    /\ Last(storage'.conversation.items) = new
               ELSE storage' = storage
       /\ ReplyStep =>
            /\ Last(chat') = Element("ai", replyText)
            /\ Last(conversation') = Message("assistant", replyText)
            /\ IF storageWritable
               THEN /\ storage'.conversation.kind = "array"
                    /\ Last(storage'.conversation.items)
                          = Message("assistant", replyText)
               ELSE storage' = storage
       /\ (Reload /\ requests # <<>> /\ storageWritable) =>
            EndsWithTurn(conversation',
                         Last(requests[Len(requests)].payload.messages))]_vars

\* The page was loaded again while the request of the turn was in flight: the
\* restored conversation ends with the turn's user message.
C18_Witness ==
    /\ storageWritable
    /\ Len(requests) = 1
    /\ requests[1].phase = "unloaded"
    /\ ~btnDisabled
    /\ latestQuestion # None
    /\ Last(conversation) = Last(requests[1].payload.messages)
    /\ Last(conversation) = Message("user", Get(latestQuestion))
    /\ Last(chat) = Element("user", Get(latestQuestion))

\* The session is Idle after at least one turn: requests were issued, none is
\* in flight and the control is enabled.
IdleAfterTurn ==
    /\ requests # <<>>
    /\ InFlightCount = 0
    /\ ~btnDisabled

\* A conversation as the program builds it: one system message, in first
\* position.
OneSystemFirst(conv) ==
    /\ conv # <<>>
    /\ conv[1].role = "system"
    /\ SystemCount(conv) = 1

\* C19: whenever the session is Idle after at least one turn, in a session
\* whose storage writes succeed, the persisted conversation equals the
\* in-memory conversation and restore would reproduce it exactly (same
\* messages, same order, same length); also after a turn that ended in an
\* error at the trimming bound.  Stated for the persisted conversations that
\* hold one system message, in first position.
C19_PersistedEqualsMemory ==
    (/\ IdleAfterTurn
     /\ storageWritable
     /\ storage.conversation.kind = "array"
     /\ OneSystemFirst(storage.conversation.items)) =>
        /\ storage.conversation = JSONstringify(conversation)
        /\ loadState(storage).conversation = conversation

\* The text is one the catch block shows.
IsErrorText(text) == text # <<>> /\ text[1] \in ErrorPrefixes

\* A step in which the turn of request r ends with an error message shown.
EndsInError(r) ==
    /\ InFlight(r)
    /\ requests'[r].phase = "done"
    /\ Len(chat') = Len(chat) + 1
    /\ IsErrorElement(Last(chat'))

\* C20: a failed turn adds nothing to the log.  From the issue of its request
\* to the display of its error message the conversation, the identity and the
\* persisted state do not change: the step in which the response's head
\* arrives and the step that shows the error message leave them as they are,
\* and when the error message is shown the conversation is still the one the
\* request was issued with, the turn's user message its last element (no
\* rollback).  The error message is in the display only: no message of the
\* conversation or of the persisted conversation holds it, and the chat after
\* a reload does not show it.
C20_FailedTurnAddsNothing ==
    /\ [](/\ \A i \in 1..Len(conversation) : ~IsErrorText(conversation[i].content)
          /\ storage.conversation.kind = "array" =>
                \A i \in 1..Len(storage.conversation.items) :
                    ~IsErrorText(storage.conversation.items[i].content))
    /\ [][\A r \in 1..Len(requests) :
            /\ (\E res \in Responses : FetchResolves(r, res)) =>
                  UNCHANGED <<conversation, userName, storage>>
            /\ EndsInError(r) =>
                  /\ UNCHANGED <<conversation, userName, storage>>
                  /\ conversation = requests[r].payload.messages
                  /\ Last(conversation).role = "user"]_vars
    /\ [][Reload => \A i \in 1..Len(chat') : ~IsErrorElement(chat'[i])]_vars

====
